---- MODULE Spec2Model ----
(***************************************************************************)
(* Model of backend/search/search_queries.py (class PersonSearch and the   *)
(* interactive loop) over the persons table filled by                      *)
(* backend/search/populate_database.py.                                    *)
(*                                                                         *)
(* A string is a sequence of one-character strings.  A row of the persons  *)
(* table is a record [first_name, last_name, full_name]; its id is its     *)
(* position in the table (AUTO_INCREMENT after TRUNCATE).                  *)
(* The SQL the program sends is modelled by what MySQL does with it under  *)
(* the server defaults the program relies on (DB_CONFIG names no charset   *)
(* or collation): comparisons with = and LIKE ignore letter case, LIKE     *)
(* treats % and _ in its pattern as wildcards, a SELECT without ORDER BY   *)
(* returns its rows in an order the server chooses.                        *)
(***************************************************************************)
EXTENDS Integers, Sequences, FiniteSets, TLC

VARIABLES
    persons,        \* the rows of the persons table, by id
    pc,             \* where the program is
    connected,      \* connect() has set connection and cursor
    line,           \* <<the line read by input()>>, <<>> when none was read
    search_term,    \* the term of the current pass or call
    strategiesRun,  \* how many of the five searches of the call have returned
    hits,           \* the result lists of the searches that have returned
    results,        \* the keys of the dict results, in insertion order
    scores,         \* the dict scores, in halves, 0 for an absent key
    returned,       \* <<the list combined_search returned>>, <<>> when none
    raised,         \* the exception that left combined_search, or "none"
    normIn,         \* an argument of normalize_string
    normOut         \* normalize_string applied to it as often as pc says

vars == <<persons, pc, connected, line, search_term, strategiesRun, hits,
          results, scores, returned, raised, normIn, normOut>>

-----------------------------------------------------------------------------
(* Bounds                                                                  *)

MaxRows == 2

MaxBulkRows == 11

MaxPermRows == 3

MaxStrLen == 3

MaxTopK == 3

-----------------------------------------------------------------------------
(* Characters and Python string methods                                    *)

Uppers == <<"A","B","C","D","E","F","G","H","I","J","K","L","M",
            "N","O","P","Q","R","S","T","U","V","W","X","Y","Z">>

Lowers == <<"a","b","c","d","e","f","g","h","i","j","k","l","m",
            "n","o","p","q","r","s","t","u","v","w","x","y","z">>

DigitChars == {"0","1","2","3","4","5","6","7","8","9"}

UpperSet == { Uppers[i] : i \in 1..26 }

LowerSet == { Lowers[i] : i \in 1..26 }

ToLower == [c \in UpperSet |-> Lowers[CHOOSE i \in 1..26 : Uppers[i] = c]]

ToUpper == [c \in LowerSet |-> Uppers[CHOOSE i \in 1..26 : Lowers[i] = c]]

IsUpper(c) == c \in UpperSet

IsLower(c) == c \in LowerSet

IsAlpha(c) == IsUpper(c) \/ IsLower(c)

IsAlnum(c) == IsAlpha(c) \/ c \in DigitChars

LowerChar(c) == IF IsUpper(c) THEN ToLower[c] ELSE c

\* str.lower()
Lower(s) == [i \in 1..Len(s) |-> LowerChar(s[i])]

IsSpace(c) == c = " "

RECURSIVE LStrip(_)
LStrip(s) == IF s # <<>> /\ IsSpace(Head(s)) THEN LStrip(Tail(s)) ELSE s

RECURSIVE RStrip(_)
RStrip(s) == IF s # <<>> /\ IsSpace(s[Len(s)]) THEN RStrip(SubSeq(s, 1, Len(s) - 1)) ELSE s

\* a strip that leaves the line as typed
NoStrip(s) == s

\* str.strip()
Strip(s) == RStrip(LStrip(s))

\* a normalisation that removes only spaces, apostrophes and hyphens
NormalizeSqlStyle(s) == SelectSeq(Lower(s), LAMBDA c : c \notin {" ", "'", "-"})

\* PersonSearch.normalize_string
normalize_string(s) == Lower(SelectSeq(s, IsAlnum))

-----------------------------------------------------------------------------
(* What MySQL computes                                                     *)

\* a = b under the default case-insensitive collation
SqlEq(a, b) == Lower(a) = Lower(b)

\* s LIKE p : % matches any run of characters, _ any one character
RECURSIVE SqlLike(_, _)
SqlLike(s, p) ==
    IF p = <<>> THEN s = <<>>
    ELSE IF Head(p) = "%" THEN SqlLike(s, Tail(p)) \/ (s # <<>> /\ SqlLike(Tail(s), p))
    ELSE /\ s # <<>>
         /\ (Head(p) = "_" \/ LowerChar(Head(p)) = LowerChar(Head(s)))
         /\ SqlLike(Tail(s), Tail(p))

\* REPLACE(REPLACE(REPLACE(LOWER(f), ' ', ''), "'", ''), '-', '')
SqlNormalized(f) == SelectSeq(Lower(f), LAMBDA c : c \notin {" ", "'", "-"})

\* REPLACE(s, ' ', '')
SqlStripSpaces(s) == SelectSeq(s, LAMBDA c : c # " ")

SoundexMap == <<"0","1","2","3","0","1","2","0","0","2","2","4","5",
                "5","0","1","2","6","2","3","0","1","0","2","0","2">>

SoundexOf == [c \in LowerSet |-> SoundexMap[CHOOSE i \in 1..26 : Lowers[i] = c]]

SoundexCode(c) == SoundexOf[LowerChar(c)]

UpperChar(c) == IF IsLower(c) THEN ToUpper[c] ELSE c

RECURSIVE SoundexTail(_, _)
SoundexTail(s, last) ==
    IF s = <<>> THEN <<>>
    ELSE IF ~IsAlpha(Head(s)) THEN SoundexTail(Tail(s), last)
    ELSE LET ch == SoundexCode(Head(s))
         IN  IF ch # "0" /\ ch # last
             THEN <<ch>> \o SoundexTail(Tail(s), ch)
             ELSE SoundexTail(Tail(s), last)

RECURSIVE PadZeros(_)
PadZeros(s) == IF Len(s) >= 4 THEN s ELSE PadZeros(Append(s, "0"))

\* SOUNDEX(s): the first letter, then the codes of the following letters,
\* vowels dropped first and repeated codes second, padded to four characters
Soundex(s) ==
    LET letters == SelectSeq(s, IsAlpha)
    IN  IF letters = <<>> THEN <<>>
        ELSE PadZeros(<<UpperChar(Head(letters))>>
                      \o SoundexTail(Tail(letters), SoundexCode(Head(letters))))

Min2(a, b) == IF a <= b THEN a ELSE b

\* one row of the edit-distance table: prev is the row for the prefix of a
\* before character ca, cur the part of the new row already computed
RECURSIVE LevRow(_, _, _, _)
LevRow(prev, cur, ca, b) ==
    LET j == Len(cur)
    IN  IF j > Len(b) THEN cur
        ELSE LevRow(prev,
                    Append(cur, Min2(Min2(prev[j + 1] + 1, cur[j] + 1),
                                     prev[j] + (IF ca = b[j] THEN 0 ELSE 1))),
                    ca, b)

RECURSIVE LevRows(_, _, _)
LevRows(row, a, b) ==
    IF a = <<>> THEN row
    ELSE LevRows(LevRow(row, <<row[1] + 1>>, Head(a), b), Tail(a), b)

\* LEVENSHTEIN(a, b), the stored function of the database
Levenshtein(a, b) == LevRows([j \in 1..(Len(b) + 1) |-> j - 1], a, b)[Len(b) + 1]

-----------------------------------------------------------------------------
(* Program constants                                                       *)

ExactLimit == 10

WildcardLimit == 20

NormalizedLimit == 20

SoundexLimit == 20

LevenshteinLimit == 20

ResultLimit == 10

PrefixLen == 3

max_distance == 3

ExactWeight == 100

NormalizedWeight == 80

SoundexWeight == 60

WildcardWeight == 40

LevenshteinWeight == 30

\* 30 / (distance + 1) is 7.5 at distance 3: every score is kept in halves
ScoreUnit == 2

-----------------------------------------------------------------------------
(* The persons table                                                       *)

\* populate_database: full_name = f"{first} {last}"
Person(first, last) ==
    [first_name |-> first, last_name |-> last, full_name |-> first \o <<" ">> \o last]

\* rows of special_names, a row whose name holds a full stop, a single-name
\* row with an empty last name and a short first name
Pool == { Person(<<"M","a","r","y">>, <<"A","n","n">>),
          Person(<<"M","a","r","y","A","n","n">>, <<"S","m","i","t","h">>),
          Person(<<"O","B","r","i","e","n">>, <<"P","a","t","r","i","c","k">>),
          Person(<<"S","t",".">>, <<"J","a","m","e","s">>),
          Person(<<"C","h","e","r">>, <<>>),
          Person(<<"B","o","b">>, <<"A","n","n">>) }

RECURSIVE SeqsOfLen(_, _)
SeqsOfLen(S, n) ==
    IF n = 0 THEN { <<>> }
    ELSE { Append(t, x) : t \in SeqsOfLen(S, n - 1), x \in S }

SeqsUpTo(S, n) == UNION { SeqsOfLen(S, k) : k \in 0..n }

SmallTables == SeqsUpTo(Pool, MaxRows)

\* tables larger than the row limits: Mary Ann in every row, but for at most
\* one row that holds MaryAnn Smith
BulkTables ==
    { [i \in 1..n |-> IF i = j THEN Person(<<"M","a","r","y","A","n","n">>, <<"S","m","i","t","h">>)
                               ELSE Person(<<"M","a","r","y">>, <<"A","n","n">>)] :
        n \in ExactLimit..MaxBulkRows, j \in 0..MaxBulkRows }

Tables == SmallTables \cup BulkTables

Ids == 1..Len(persons)

Fields(r) == <<r.first_name, r.last_name, r.full_name>>

\* the orders in which a SELECT without ORDER BY may return the rows: every
\* order for a small table, the two primary-key scan directions for a large one
ScanOrders(n) ==
    IF n <= MaxPermRows THEN Permutations(1..n)
    ELSE { [i \in 1..n |-> i], [i \in 1..n |-> n + 1 - i] }

Take(seq, n) == SubSeq(seq, 1, Min2(n, Len(seq)))

\* SELECT * FROM persons WHERE <where> LIMIT <limit>; where is the set of
\* ids of the rows that satisfy the WHERE clause
Select(ord, where, limit) == Take(SelectSeq(ord, LAMBDA id : id \in where), limit)

-----------------------------------------------------------------------------
(* The WHERE clauses                                                       *)

ExactWhere(r, term) == \E i \in 1..3 : SqlEq(Fields(r)[i], term)

WildcardWhere(r, term) ==
    \E i \in 1..3 : SqlLike(Fields(r)[i], <<"%">> \o term \o <<"%">>)

NormalizedWhere(r, term) ==
    \E i \in 1..3 : SqlEq(SqlNormalized(Fields(r)[i]), normalize_string(term))

SoundexWhere(r, term) ==
    \/ SqlEq(Soundex(r.first_name), Soundex(term))
    \/ SqlEq(Soundex(r.last_name), Soundex(term))
    \/ SqlEq(Soundex(r.first_name \o r.last_name), Soundex(SqlStripSpaces(term)))

\* search_term[:3] if len(search_term) >= 3 else search_term
first_chars(term) == IF Len(term) >= PrefixLen THEN SubSeq(term, 1, PrefixLen) ELSE term

PrefixWhere(r, term) ==
    \E i \in 1..3 : SqlLike(Fields(r)[i], first_chars(term) \o <<"%">>)

MinOf(S) == CHOOSE x \in S : \A y \in S : x <= y

\* the distances of the non-empty fields of a candidate
Distances(r, term) ==
    { Levenshtein(Lower(term), Lower(Fields(r)[i])) : i \in { k \in 1..3 : Fields(r)[k] # <<>> } }

\* candidate['levenshtein_distance'] for the candidates, the rows whose id is
\* in prefix; max_distance + 1 stands for a row that has none
levenshtein_distance(term, prefix) ==
    [id \in Ids |-> LET distances == IF id \in prefix THEN Distances(persons[id], term) ELSE {}
                    IN  IF distances = {} THEN max_distance + 1 ELSE MinOf(distances)]

\* what the server answers for a term: the ids of the rows that satisfy the
\* WHERE clause of each query, and the distance of each candidate
Answers(term) ==
    LET prefix == { id \in Ids : PrefixWhere(persons[id], term) }
    IN  [exact      |-> { id \in Ids : ExactWhere(persons[id], term) },
         normalized |-> { id \in Ids : NormalizedWhere(persons[id], term) },
         soundex    |-> { id \in Ids : SoundexWhere(persons[id], term) },
         wildcard   |-> { id \in Ids : WildcardWhere(persons[id], term) },
         prefix     |-> prefix,
         distance   |-> levenshtein_distance(term, prefix)]

-----------------------------------------------------------------------------
(* Sorting and the five searches                                           *)

\* sorted(..., reverse=True): descending by key, equal keys keep their order
RECURSIVE SortedDesc(_, _)
SortedDesc(seq, key) ==
    IF seq = <<>> THEN <<>>
    ELSE LET rest == SortedDesc(SubSeq(seq, 1, Len(seq) - 1), key)
             x == seq[Len(seq)]
             n == Cardinality({ i \in 1..Len(rest) : key[rest[i]] >= key[x] })
         IN  SubSeq(rest, 1, n) \o <<x>> \o SubSeq(rest, n + 1, Len(rest))

\* list.sort(key=...): ascending by key, equal keys keep their order
SortedAsc(seq, key) == SortedDesc(seq, [id \in DOMAIN key |-> 0 - key[id]])

exact_search(db, ord) == Select(ord, db.exact, ExactLimit)

wildcard_search(db, ord) == Select(ord, db.wildcard, WildcardLimit)

normalized_search(db, ord) == Select(ord, db.normalized, NormalizedLimit)

soundex_search(db, ord) == Select(ord, db.soundex, SoundexLimit)

\* the candidates whose smallest distance is at most max_distance, nearest
\* first, at most 20
levenshtein_search(db, ord) ==
    LET candidates == Select(ord, db.prefix, Len(ord))
        kept == SelectSeq(candidates, LAMBDA id : db.distance[id] <= max_distance)
    IN  Take(SortedAsc(kept, db.distance), LevenshteinLimit)

\* the five result lists, in the order combined_search asks for them
StrategyHits(db, ord) ==
    << exact_search(db, ord), normalized_search(db, ord), soundex_search(db, ord),
       wildcard_search(db, ord), levenshtein_search(db, ord) >>

\* what each strategy adds to the score of a row it returned
Weights(db) ==
    << [id \in Ids |-> ScoreUnit * ExactWeight],
       [id \in Ids |-> ScoreUnit * NormalizedWeight],
       [id \in Ids |-> ScoreUnit * SoundexWeight],
       [id \in Ids |-> ScoreUnit * WildcardWeight],
       [id \in Ids |-> (ScoreUnit * LevenshteinWeight) \div (db.distance[id] + 1)] >>

-----------------------------------------------------------------------------
(* Rank fusion in combined_search                                          *)

EmptyAcc == [results |-> <<>>, scores |-> [id \in Ids |-> 0]]

InSeq(x, seq) == \E i \in 1..Len(seq) : seq[i] = x

\* a fusion that keeps the larger of the old score and the weight
AddMax(old, w) == IF old >= w THEN old ELSE w

\* scores[key] = scores.get(key, 0) + weight
AddScore(old, w) == old + w

\* one for-loop of combined_search: a row not seen before is appended to the
\* results dict, and the weight is added to its score
RECURSIVE Accumulate(_, _, _)
Accumulate(acc, list, w) ==
    IF list = <<>> THEN acc
    ELSE LET key == Head(list)
             added == [acc.scores EXCEPT ![key] = AddScore(@, w[key])]
         IN  IF ~InSeq(key, acc.results)
             THEN Accumulate([results |-> Append(acc.results, key), scores |-> added],
                             Tail(list), w)
             ELSE Accumulate([results |-> acc.results, scores |-> added], Tail(list), w)

\* the locals results and scores after the first k strategies
RECURSIVE FuseFirst(_, _, _)
FuseFirst(k, H, W) ==
    IF k = 0 THEN EmptyAcc ELSE Accumulate(FuseFirst(k - 1, H, W), H[k], W[k])

\* a cut that keeps every row
NoCut(seq) == seq

\* sorted_results[:10]
TopTen(seq) == Take(seq, ResultLimit)

\* a sort that leaves the dict order alone
Unsorted(seq, key) == seq

\* sorted(results.items(), key=lambda x: scores[x[0]], reverse=True)
SortByScore(seq, key) == SortedDesc(seq, key)

\* a call that hands back what it has fused when a query fails
SwallowError(failAt, list) == [returned |-> <<list>>, raised |-> "none"]

\* combined_search has no try: an error of the cursor leaves through the
\* call, which then returns nothing; failAt = 0 when no query fails
Propagate(failAt, list) ==
    IF failAt = 0 THEN [returned |-> <<list>>, raised |-> "none"]
    ELSE [returned |-> <<>>, raised |-> "mysql.connector.Error"]

-----------------------------------------------------------------------------
(* Inputs                                                                  *)

\* terms of test_cases, and the empty term for a caller of combined_search
\* other than the two loops of this file
SearchTerms == { <<"M","a","r","y","A","n","n">>,
                 <<"M","a","r","y"," ","A","n","n">>,
                 <<"O","'","B","r","i","e","n">>,
                 <<>> }

\* lines typed at the prompt
RawInputs == { <<>>,
               <<" ">>,
               <<"Q","U","I","T">>,
               <<" ","S","t","."," ">>,
               <<"m","a","r","y">>,
               <<"A","n","n">>,
               <<"S","t">>,
               <<"_","o","b">>,
               <<"'">> }

NormAlphabet == {"a", "B", "7", " ", "'", "-", "."}

NormInputs == SeqsUpTo(NormAlphabet, MaxStrLen)

-----------------------------------------------------------------------------
(* The program                                                             *)

NoHits == << <<>>, <<>>, <<>>, <<>>, <<>> >>

Init ==
    /\ persons \in Tables
    /\ pc = "new"
    /\ connected = FALSE
    /\ line = <<>>
    /\ search_term = <<>>
    /\ strategiesRun = 0
    /\ hits = NoHits
    /\ results = <<>>
    /\ scores = [id \in Ids |-> 0]
    /\ returned = <<>>
    /\ raised = "none"
    /\ normIn = <<>>
    /\ normOut = <<>>

\* connect(): True, or False after printing the error
Connect ==
    /\ pc = "new"
    /\ \/ connected' = TRUE /\ pc' = "ready"
       \/ connected' = FALSE /\ pc' = "failed"
    /\ UNCHANGED <<persons, line, search_term, strategiesRun, hits, results, scores,
                   returned, raised, normIn, normOut>>

\* combined_search(term), H the answers to its five queries and W what each
\* adds; the query of strategy failAt fails (0: none fails)
combined_search(term, H, W, failAt) ==
    LET done == IF failAt = 0 THEN 5 ELSE failAt - 1
        acc == FuseFirst(done, H, W)
        out == Propagate(failAt, TopTen(SortByScore(acc.results, acc.scores)))
    IN  /\ search_term' = term
        /\ strategiesRun' = done
        /\ hits' = [s \in 1..5 |-> IF s <= done THEN H[s] ELSE <<>>]
        /\ results' = acc.results
        /\ scores' = acc.scores
        /\ returned' = out.returned
        /\ raised' = out.raised
        /\ pc' = IF out.raised = "none" THEN "returned" ELSE "crashed"

\* a call of combined_search: the server picks the order of the rows, and any
\* of the queries may fail
Search(term) ==
    LET db == Answers(term)
        W == Weights(db)
    IN  \E ord \in ScanOrders(Len(persons)) :
           LET H == StrategyHits(db, ord)
           IN  \E failAt \in 0..5 : combined_search(term, H, W, failAt)

\* results = search.combined_search(search_term), as run_test_searches calls it
CombinedSearchCall(term) ==
    /\ pc = "ready"
    /\ Search(term)
    /\ line' = <<>>
    /\ UNCHANGED <<persons, connected, normIn, normOut>>

\* one pass of the loop of interactive_search
InteractiveInput(raw) ==
    /\ pc = "ready"
    /\ line' = <<raw>>
    /\ LET term == Strip(raw)
       IN  IF Lower(term) = <<"q","u","i","t">>
           THEN /\ pc' = "closed"
                /\ connected' = FALSE
                /\ search_term' = term
                /\ UNCHANGED <<strategiesRun, hits, results, scores, returned, raised>>
           ELSE IF term = <<>>
           THEN /\ pc' = "skipped"
                /\ search_term' = term
                /\ UNCHANGED <<connected, strategiesRun, hits, results, scores,
                               returned, raised>>
           ELSE /\ Search(term)
                /\ UNCHANGED connected
    /\ UNCHANGED <<persons, normIn, normOut>>

\* display_results, then the next test case or the next prompt
NextIteration ==
    /\ pc \in {"returned", "skipped"}
    /\ pc' = "ready"
    /\ line' = <<>>
    /\ search_term' = <<>>
    /\ strategiesRun' = 0
    /\ hits' = NoHits
    /\ results' = <<>>
    /\ scores' = [id \in Ids |-> 0]
    /\ returned' = <<>>
    /\ UNCHANGED <<persons, connected, raised, normIn, normOut>>

\* search.close()
Close ==
    /\ pc = "ready"
    /\ pc' = "closed"
    /\ connected' = FALSE
    /\ UNCHANGED <<persons, line, search_term, strategiesRun, hits, results, scores,
                   returned, raised, normIn, normOut>>

Next ==
    \/ Connect
    \/ \E term \in SearchTerms : CombinedSearchCall(term)
    \/ \E raw \in RawInputs : InteractiveInput(raw)
    \/ NextIteration
    \/ Close

Spec == Init /\ [][Next]_vars

-----------------------------------------------------------------------------
(* normalize_string on its own                                             *)

InitNormalize ==
    /\ persons = <<>>
    /\ pc = "new"
    /\ connected = FALSE
    /\ line = <<>>
    /\ search_term = <<>>
    /\ strategiesRun = 0
    /\ hits = NoHits
    /\ results = <<>>
    /\ scores = [id \in {} |-> 0]
    /\ returned = <<>>
    /\ raised = "none"
    /\ normIn \in NormInputs
    /\ normOut = normIn

\* normOut becomes normalize_string(normOut); normIn keeps the input
ApplyNormalize ==
    /\ pc \in {"new", "once"}
    /\ pc' = IF pc = "new" THEN "once" ELSE "twice"
    /\ normOut' = normalize_string(normOut)
    /\ UNCHANGED <<persons, connected, line, search_term, strategiesRun, hits,
                   results, scores, returned, raised, normIn>>

NextNormalize == ApplyNormalize

SpecNormalize == InitNormalize /\ [][NextNormalize]_vars

-----------------------------------------------------------------------------
(* Properties                                                              *)

\* the list a finished call of combined_search returned
ReturnedList == returned[1]

Completed == pc = "returned"

PosIn(seq, x) == CHOOSE i \in 1..Len(seq) : seq[i] = x

\* the first of the five searches that returned the row
FirstStrategy(id) == CHOOSE s \in 1..5 : InSeq(id, hits[s]) /\ \A t \in 1..(s - 1) : ~InSeq(id, hits[t])

\* row a entered the dict results before row b
DiscoveredBefore(a, b) ==
    \/ FirstStrategy(a) < FirstStrategy(b)
    \/ /\ FirstStrategy(a) = FirstStrategy(b)
       /\ PosIn(hits[FirstStrategy(a)], a) < PosIn(hits[FirstStrategy(a)], b)

\* C1, as claimed: the returned list is ordered by total score descending,
\* and two returned records of equal score are in ascending id order.
C1_SortedByScoreThenId ==
    (Completed /\ search_term # <<>>) =>
        \A i \in 1..Len(ReturnedList) : \A j \in (i + 1)..Len(ReturnedList) :
            \/ scores[ReturnedList[i]] > scores[ReturnedList[j]]
            \/ /\ scores[ReturnedList[i]] = scores[ReturnedList[j]]
               /\ ReturnedList[i] < ReturnedList[j]

\* C1, amended: the returned list is ordered by total score descending, and
\* two returned records of equal score are in the order in which the searches
\* first returned them (Exact, Normalized, Soundex, Wildcard, Levenshtein, and
\* within one search the order of its result list).
C1_SortedByScoreThenDiscovery ==
    Completed =>
        \A i \in 1..Len(ReturnedList) : \A j \in (i + 1)..Len(ReturnedList) :
            \/ scores[ReturnedList[i]] > scores[ReturnedList[j]]
            \/ /\ scores[ReturnedList[i]] = scores[ReturnedList[j]]
               /\ DiscoveredBefore(ReturnedList[i], ReturnedList[j])

\* a tie of two returned records, the one with the larger id first
C1_Witness ==
    /\ Completed
    /\ search_term # <<>>
    /\ \E i \in 1..Len(ReturnedList) : \E j \in (i + 1)..Len(ReturnedList) :
          /\ scores[ReturnedList[i]] = scores[ReturnedList[j]]
          /\ ReturnedList[i] > ReturnedList[j]

\* the ids of the rows that meet the match condition of strategy s
MatchSet(db, s) ==
    CASE s = 1 -> db.exact
      [] s = 2 -> db.normalized
      [] s = 3 -> db.soundex
      [] s = 4 -> db.wildcard
      [] s = 5 -> { id \in db.prefix : db.distance[id] <= 3 }

\* the contribution of strategy s to row id, in halves: 100, 80, 60, 40 and
\* 30 / (distance + 1)
Contribution(db, s, id) ==
    CASE s = 1 -> 200
      [] s = 2 -> 160
      [] s = 3 -> 120
      [] s = 4 -> 80
      [] s = 5 -> 60 \div (db.distance[id] + 1)

RECURSIVE SumTo(_, _)
SumTo(f, n) == IF n = 0 THEN 0 ELSE f[n] + SumTo(f, n - 1)

RowLimit(s) == IF s = 1 THEN 10 ELSE 20

SetOf(seq) == { seq[i] : i \in 1..Len(seq) }

\* row a is placed before row b in the returned list whenever b is in it
RanksAbove(a, b) ==
    InSeq(b, ReturnedList) =>
        /\ InSeq(a, ReturnedList)
        /\ PosIn(ReturnedList, a) < PosIn(ReturnedList, b)

Blank(s) == \A i \in 1..Len(s) : s[i] = " "

\* the query the caller passed: the line typed, or the term of a direct call
Query == IF line # <<>> THEN line[1] ELSE search_term

Asked == pc \in {"returned", "skipped", "crashed"}

\* C3, as claimed: a search with a query that is empty after trimming fails
\* with InvalidQuery before any strategy runs.
C3_EmptyQueryFailsInvalidQuery ==
    (Asked /\ Blank(Query)) =>
        raised = "InvalidQuery" /\ strategiesRun = 0 /\ returned = <<>>

\* C3, amended: a line that is empty after trimming is skipped by the
\* interactive loop before any strategy runs: no strategy is executed and no
\* result list is returned, and no error is raised; combined_search itself
\* does not check its term: called with the empty term it runs the five
\* strategies and, when no query fails, returns every row up to ten.
C3_BlankLineSkipped ==
    /\ (Asked /\ line # <<>> /\ Blank(line[1])) =>
           pc = "skipped" /\ raised = "none" /\ strategiesRun = 0 /\ returned = <<>>
    /\ (Asked /\ line = <<>> /\ search_term = <<>>) =>
           /\ pc # "skipped"
           /\ raised # "InvalidQuery"
           /\ Completed => strategiesRun = 5 /\ Len(ReturnedList) = Min2(Len(persons), 10)

\* a line of spaces was typed and skipped
C3_Witness == pc = "skipped" /\ line # <<>> /\ Len(line[1]) > 0 /\ Blank(line[1])

\* C4, as claimed: a record one of whose names has the normal form of the
\* query, that form not being empty, is a Normalized candidate and is in the
\* returned list.
C4_NormalizedEqualIsFound ==
    (Completed /\ normalize_string(search_term) # <<>>) =>
        \A id \in Ids :
            (\E i \in 1..3 : normalize_string(Fields(persons[id])[i]) = normalize_string(search_term))
                => InSeq(id, hits[2]) /\ InSeq(id, ReturnedList)

\* C5, as claimed: whatever topK the caller wants, at most topK results are
\* returned.
C5_AtMostTopK ==
    (Completed /\ search_term # <<>>) =>
        \A topK \in 1..MaxTopK : Len(ReturnedList) <= topK

\* C5, amended: combined_search takes no topK; it returns at most 10 results.
C5_AtMostTen == Completed => Len(ReturnedList) <= 10

\* more than ten rows were found and ten were returned
C5_Witness == Completed /\ search_term # <<>> /\ Len(results) > 10 /\ Len(ReturnedList) = 10

\* C6: when a query of one of the five strategies fails, the call fails with
\* that error: nothing is returned, neither what was fused so far nor an
\* empty list; a list is returned only when all five strategies have run.
C6_ErrorFailsWholeCall ==
    /\ (pc \in {"returned", "crashed"} /\ strategiesRun < 5) =>
           pc = "crashed" /\ raised = "mysql.connector.Error" /\ returned = <<>>
    /\ returned # <<>> => strategiesRun = 5 /\ raised = "none"

\* a query failed after rows had been fused
C6_Witness == pc = "crashed" /\ raised # "none" /\ strategiesRun >= 1 /\ results # <<>>

StartsWith(f, p) == Len(f) >= Len(p) /\ Lower(SubSeq(f, 1, Len(p))) = Lower(p)

\* C7, as claimed: every candidate of EditDistance has a name that starts,
\* letter case ignored, with the first 3 characters of the query, or with
\* the whole query when it is shorter.
C7_EditDistancePrefix ==
    strategiesRun = 5 =>
        \A id \in SetOf(hits[5]) :
            \E i \in 1..3 :
                StartsWith(Fields(persons[id])[i],
                           IF Len(search_term) >= 3 THEN SubSeq(search_term, 1, 3) ELSE search_term)

\* C8: normalize_string applied twice gives what it gives applied once, and
\* its result holds lowercase letters and digits only.
C8_NormalizeIdempotent ==
    /\ pc \in {"once", "twice"} =>
           \A i \in 1..Len(normOut) : normOut[i] \in LowerSet \cup DigitChars
    /\ pc = "twice" => normOut = normalize_string(normIn)

\* an input with an upper-case letter and a removed character, normalised twice
C8_Witness ==
    /\ pc = "twice"
    /\ normOut # <<>>
    /\ \E i \in 1..Len(normIn) : normIn[i] \in UpperSet
    /\ \E i \in 1..Len(normIn) : normIn[i] \in {" ", "'", "-", "."}

\* C10, as claimed: when the normal form of a query, such as a query of
\* punctuation only, is empty, the Normalized strategy returns no candidate,
\* so no record receives its 80.
C10_EmptyNormalFormNoCandidate ==
    (strategiesRun >= 2 /\ ~Blank(search_term) /\ normalize_string(search_term) = <<>>) =>
        hits[2] = <<>>

====
